---- MODULE Spec2Model ----
(***************************************************************************)
(* Function analysis phase of the binding generator                        *)
(* (engine/src/conversion/analysis/fun/mod.rs): FnAnalyzer walks the list  *)
(* of API items in input order, decides the names, the kind, the           *)
(* conversion policies and the wrapper shim of every function, and         *)
(* records per-item failures without stopping the batch.                   *)
(*                                                                         *)
(* Strings are sequences of tokens. Every token stands for a fixed piece   *)
(* of text and no token is a prefix of another, so two token sequences     *)
(* are equal exactly when the texts they spell are equal; starts_with,     *)
(* ends_with, slicing and format! are computed on the sequences.           *)
(***************************************************************************)
EXTENDS Integers, Sequences, FiniteSets, TLC

\* ---------------------------------------------------------------- bounds
\* Longest input list of the naming specification (Spec).
MaxApis == 3
\* Longest input list of the classification specification (SpecKinds).
MaxKindApis == 2
\* Most declared (non-receiver) parameters of a function in SpecConv.
MaxParams == 2

\* ------------------------------------------------------- Option and text
None == <<>>
Some(x) == <<x>>
IsSome(o) == Len(o) = 1
IsNone(o) == Len(o) = 0
Unwrap(o) == o[1]

starts_with(s, p) == Len(p) <= Len(s) /\ SubSeq(s, 1, Len(p)) = p
ends_with(s, p) == Len(p) <= Len(s) /\ SubSeq(s, Len(s) - Len(p) + 1, Len(s)) = p
\* &s[n..]
slice_from(s, n) == SubSeq(s, n + 1, Len(s))

DigitTokens == <<"0", "1", "2", "3", "4", "5", "6", "7", "8", "9">>

\* usize formatted by format!("{}", n): its decimal digits.
RECURSIVE to_digits(_)
to_digits(n) ==
  IF n < 10 THEN <<DigitTokens[n + 1]>>
  ELSE to_digits(n \div 10) \o <<DigitTokens[(n % 10) + 1]>>

RECURSIVE concat_all(_)
concat_all(ss) == IF ss = <<>> THEN <<>> ELSE Head(ss) \o concat_all(Tail(ss))

RECURSIVE union_all(_)
union_all(ss) == IF ss = <<>> THEN {} ELSE Head(ss) \cup union_all(Tail(ss))

\* ------------------------------------------------------- qualified names
QN(ns, id) == [ns |-> ns, id |-> id]
NoName == QN(<<>>, <<>>)
get_final_item(qn) == qn.id
get_namespace(qn) == qn.ns

RootNs == <<>>
NsN == <<"n">>

T_root == QN(RootNs, <<"T">>)
T_n == QN(NsN, <<"T">>)
U_root == QN(RootNs, <<"U">>)
IntName == QN(RootNs, <<"int">>)
PodName == QN(RootNs, <<"P">>)
StringName == QN(<<"std">>, <<"string">>)
CVoidName == QN(RootNs, <<"c_void">>)
BadName == QN(RootNs, <<"Bad">>)
TplName == QN(RootNs, <<"Tpl">>)
TplConcreteName == QN(RootNs, <<"Tpl", "_", "int">>)

is_cvoid(qn) == qn = CVoidName

\* ------------------------------------------------------------------ types
\* syn::Type as far as the analyzer looks into it: a path naming a type, a raw
\* pointer to a path or to something else, a reference, or any other shape.
Ty(k, n, m) == [k |-> k, n |-> n, mut |-> m]
PathTy(n) == Ty("Path", n, FALSE)
PtrTy(n, m) == Ty("Ptr", n, m)
PtrOtherTy == Ty("PtrOther", NoName, TRUE)
RefTy(n, m) == Ty("Ref", n, m)
OtherTy == Ty("Other", NoName, FALSE)
UniquePtrTy(t) == Ty("UniquePtr", t.n, FALSE)

\* known_types(): the fixed list of plain-old-data-safe types and the types
\* with a string-like native form.
known_pod_safe_types == {IntName}
convertible_from_strs(tn) == tn = StringName

\* TypeConverter::convert_boxed_type: the external type converter. A pointer
\* becomes a reference when the context allows it and stays a raw pointer
\* (unsafe) otherwise; a templated type materializes a concrete type; a type
\* it cannot handle is a conversion failure.
type_converter_convert(ty, ns, convert_ptrs_to_reference) ==
  CASE ty.k = "Path" /\ ty.n = BadName ->
         [ok |-> FALSE, err |-> "UnsupportedType", ty |-> ty, types_encountered |-> {},
          requires_unsafe |-> FALSE, extra_apis |-> <<>>]
    [] ty.k = "Path" /\ ty.n = TplName ->
         [ok |-> TRUE, err |-> "", ty |-> PathTy(TplConcreteName),
          types_encountered |-> {TplConcreteName}, requires_unsafe |-> FALSE,
          extra_apis |-> <<[name |-> TplConcreteName, deps |-> {},
                            detail |-> [d |-> "ConcreteType"]]>>]
    [] ty.k = "Ptr" /\ ty.n = BadName ->
         [ok |-> FALSE, err |-> "UnsupportedType", ty |-> ty, types_encountered |-> {},
          requires_unsafe |-> FALSE, extra_apis |-> <<>>]
    [] ty.k = "Ptr" /\ ty.n # BadName /\ convert_ptrs_to_reference ->
         [ok |-> TRUE, err |-> "", ty |-> RefTy(ty.n, ty.mut),
          types_encountered |-> {ty.n}, requires_unsafe |-> FALSE, extra_apis |-> <<>>]
    [] ty.k = "Ptr" /\ ty.n # BadName /\ ~convert_ptrs_to_reference ->
         [ok |-> TRUE, err |-> "", ty |-> ty,
          types_encountered |-> {ty.n}, requires_unsafe |-> TRUE, extra_apis |-> <<>>]
    [] ty.k = "PtrOther" ->
         [ok |-> TRUE, err |-> "", ty |-> ty,
          types_encountered |-> {}, requires_unsafe |-> TRUE, extra_apis |-> <<>>]
    [] OTHER ->
         [ok |-> TRUE, err |-> "", ty |-> ty,
          types_encountered |-> IF ty.n = NoName THEN {} ELSE {ty.n},
          requires_unsafe |-> FALSE, extra_apis |-> <<>>]

\* ------------------------------------------------------ conversion policy
\* function_wrapper::TypeConversionPolicy
Policy(c, ty) == [cpp_conversion |-> c, unwrapped_type |-> ty]
new_unconverted(ty) == Policy("None", ty)
new_to_unique_ptr(ty) == Policy("FromValueToUniquePtr", ty)
new_from_unique_ptr(ty) == Policy("FromUniquePtrToValue", ty)
new_from_str(ty) == Policy("FromStrToValue", ty)
cpp_work_needed(p) == p.cpp_conversion # "None"
unconverted_rust_type(p) ==
  IF p.cpp_conversion = "FromValueToUniquePtr" THEN UniquePtrTy(p.unwrapped_type)
  ELSE p.unwrapped_type
converted_rust_type(p) ==
  CASE p.cpp_conversion = "FromUniquePtrToValue" -> UniquePtrTy(p.unwrapped_type)
    [] p.cpp_conversion = "FromStrToValue" -> UniquePtrTy(PathTy(StringName))
    [] OTHER -> p.unwrapped_type

\* Mutant: only the fixed list of plain-old-data-safe types is looked at.
argument_conversion_details_known(pod_safe, gen_utilities, ty) ==
  IF ty.k = "Path" THEN
    IF ty.n \in known_pod_safe_types THEN new_unconverted(ty)
    ELSE IF convertible_from_strs(ty.n) /\ gen_utilities THEN new_from_str(ty)
    ELSE new_from_unique_ptr(ty)
  ELSE new_unconverted(ty)
\* FnAnalyzer::argument_conversion_details
argument_conversion_details(pod_safe, gen_utilities, ty) ==
  IF ty.k = "Path" THEN
    IF ty.n \in pod_safe THEN new_unconverted(ty)
    ELSE IF convertible_from_strs(ty.n) /\ gen_utilities THEN new_from_str(ty)
    ELSE new_from_unique_ptr(ty)
  ELSE new_unconverted(ty)

\* FnAnalyzer::return_type_conversion_details
return_type_conversion_details(pod_safe, ty) ==
  IF ty.k = "Path" THEN
    IF ty.n \in pod_safe THEN new_unconverted(ty)
    ELSE new_to_unique_ptr(ty)
  ELSE new_unconverted(ty)

\* ---------------------------------------------------------- name trackers
\* rust_name_tracker::RustNameTracker (Friendly-Name Tracker): claim(name) is
\* true the first time a name is claimed in the run and false afterwards.
RustNameTracker_new == {}
RustNameTracker_ok_to_use_rust_name(tracker, rust_name) ==
  [ok |-> rust_name \notin tracker, tracker |-> tracker \cup {rust_name}]

RECURSIVE join(_, _)
join(parts, sep) ==
  IF Len(parts) = 0 THEN <<>>
  ELSE IF Len(parts) = 1 THEN parts[1]
  ELSE parts[1] \o sep \o join(Tail(parts), sep)

\* bridge_name_tracker::BridgeNameTracker (Bridge-Name Tracker): every call
\* hands out a name no earlier call handed out. The desired name is used when
\* it is free; otherwise the name qualified by namespace and owning type;
\* otherwise that name with the first free numeric suffix.
BridgeNameTracker_new == {}
AutocxxSuffix(k) == <<"_", "autocxx">> \o to_digits(k)
BridgeNameTracker_get_unique_cxx_bridge_name(tracker, type_name, found_name, ns) ==
  LET segs == [i \in 1..Len(ns) |-> <<ns[i]>>]
      prefix == join(segs \o type_name \o <<found_name>>, <<"_">>)
      k == CHOOSE j \in 1..(Cardinality(tracker) + 1) :
             /\ prefix \o AutocxxSuffix(j) \notin tracker
             /\ \A i \in 1..(j - 1) : prefix \o AutocxxSuffix(i) \in tracker
      name == IF found_name \notin tracker THEN found_name
              ELSE IF prefix \notin tracker THEN prefix
              ELSE prefix \o AutocxxSuffix(k)
  IN [name |-> name, tracker |-> tracker \cup {name}]

\* overload_tracker::OverloadTracker (Overload Tracker, one per namespace): the
\* number of earlier uses of each (owning type, name) pair; the first use keeps
\* the name, the later ones get the count appended.
OverloadTracker_default == <<>>
OverloadKey(type_name, found_name) == [ty |-> type_name, name |-> found_name]
OverloadTracker_offset(tracker, key) ==
  LET hits == {i \in 1..Len(tracker) : tracker[i].key = key}
  IN IF hits = {} THEN 0 ELSE tracker[CHOOSE i \in hits : TRUE].offset
OverloadTracker_get_name(tracker, type_name, found_name) ==
  LET key == OverloadKey(type_name, found_name)
      this_offset == OverloadTracker_offset(tracker, key)
      bumped == IF \E i \in 1..Len(tracker) : tracker[i].key = key
                THEN [i \in 1..Len(tracker) |->
                        IF tracker[i].key = key
                        THEN [key |-> key, offset |-> this_offset + 1]
                        ELSE tracker[i]]
                ELSE Append(tracker, [key |-> key, offset |-> 1])
  IN [name |-> IF this_offset = 0 THEN found_name
               ELSE found_name \o to_digits(this_offset),
      tracker |-> bumped]
OverloadTracker_get_method_real_name(tracker, type_name, found_name) ==
  OverloadTracker_get_name(tracker, Some(type_name), found_name)
OverloadTracker_get_function_real_name(tracker, found_name) ==
  OverloadTracker_get_name(tracker, None, found_name)

\* Mutant: one overload tracker shared by all the namespaces.
overload_tracker_entry_shared(by_mod, ns) ==
  IF DOMAIN by_mod # {} THEN by_mod[CHOOSE m \in DOMAIN by_mod : TRUE]
  ELSE OverloadTracker_default
\* self.overload_trackers_by_mod.entry(ns.clone()).or_default()
overload_tracker_entry(by_mod, ns) ==
  IF ns \in DOMAIN by_mod THEN by_mod[ns] ELSE OverloadTracker_default
overload_tracker_store(by_mod, ns, tracker) ==
  [m \in DOMAIN by_mod \cup {ns} |-> IF m = ns THEN tracker ELSE by_mod[m]]

\* FnAnalyzer::get_cxx_bridge_name
get_cxx_bridge_name(tracker, type_name, found_name, ns) ==
  BridgeNameTracker_get_unique_cxx_bridge_name(tracker, type_name, found_name, ns)

\* FnAnalyzer::ok_to_use_rust_name
ok_to_use_rust_name(tracker, rust_name) ==
  RustNameTracker_ok_to_use_rust_name(tracker, rust_name)

\* Mutant: every type counts as allow-listed.
is_on_allowlist_always(allowlist, type_name) == TRUE
\* FnAnalyzer::is_on_allowlist
is_on_allowlist(allowlist, type_name) == type_name \in allowlist

\* FnAnalyzer::should_be_unsafe
should_be_unsafe(unsafe_policy) == unsafe_policy = "AllFunctionsUnsafe"

\* ------------------------------------------------------------ the analysis
\* ConvertError and its ErrorContext
ConvertError(kind, name) == [kind |-> kind, name |-> name]
NoError == ConvertError("", <<>>)
ErrorContext_Item(id) == [c |-> "Item", self_ty |-> <<>>, id |-> id]
ErrorContext_Method(self_ty, method) == [c |-> "Method", self_ty |-> self_ty, id |-> method]
NoContext == [c |-> "", self_ty |-> <<>>, id |-> <<>>]

ThisIdent == <<"this">>
SelfIdent == <<"self">>
AutocxxGenThis == <<"autocxx_gen_this">>
DestructorMarker == <<"_", "destructor">>
Underscore == <<"_">>
MakeUnique == <<"make", "_", "unique">>
AutocxxWrapper == <<"autocxx", "_", "wrapper">>

NoArgumentAnalysis ==
  [conversion |-> new_unconverted(OtherTy), name |-> <<>>, self_type |-> None,
   was_reference |-> FALSE, deps |-> {}, is_virtual |-> FALSE, requires_unsafe |-> FALSE]

\* Mutant: without a concrete receiver type the erased type is the owner.
this_type_of_erased(ty, ns, fn_name, virtual_this) ==
  IF ty.k = "Ptr" THEN
    IF is_cvoid(ty.n) /\ IsSome(virtual_this)
    THEN [ok |-> TRUE, err |-> NoError, this_type |-> Unwrap(virtual_this),
          is_virtual |-> TRUE, ty |-> PtrTy(Unwrap(virtual_this), ty.mut)]
    ELSE [ok |-> TRUE, err |-> NoError, this_type |-> ty.n, is_virtual |-> FALSE, ty |-> ty]
  ELSE [ok |-> FALSE, err |-> ConvertError("UnexpectedThisType", fn_name),
        this_type |-> NoName, is_virtual |-> FALSE, ty |-> ty]
\* The receiver arm of FnAnalyzer::convert_fn_arg: the owning type a parameter
\* named "this" stands for.
this_type_of(ty, ns, fn_name, virtual_this) ==
  IF ty.k = "Ptr" THEN
    IF is_cvoid(ty.n) THEN
      IF IsSome(virtual_this)
      THEN [ok |-> TRUE, err |-> NoError, this_type |-> Unwrap(virtual_this),
            is_virtual |-> TRUE, ty |-> PtrTy(Unwrap(virtual_this), ty.mut)]
      ELSE [ok |-> FALSE, err |-> ConvertError("VirtualThisType", fn_name),
            this_type |-> NoName, is_virtual |-> TRUE, ty |-> ty]
    ELSE [ok |-> TRUE, err |-> NoError, this_type |-> ty.n, is_virtual |-> FALSE, ty |-> ty]
  ELSE [ok |-> FALSE, err |-> ConvertError("UnexpectedThisType", fn_name),
        this_type |-> NoName, is_virtual |-> FALSE, ty |-> ty]

\* FnAnalyzer::convert_fn_arg (with the call of FnAnalyzer::convert_boxed_type
\* it makes: extra_apis are the auxiliary types the conversion materialized,
\* which convert_boxed_type appends to self.extra_apis).
convert_fn_arg(pod_safe, gen_utilities, arg, ns, fn_name, virtual_this, reference_args) ==
  LET is_this == arg.name = ThisIdent
      this == this_type_of(arg.ty, ns, fn_name, virtual_this)
      treat_as_reference == IF is_this THEN TRUE ELSE arg.name \in reference_args
      in_ty == IF is_this THEN this.ty ELSE arg.ty
      conv == type_converter_convert(in_ty, ns, treat_as_reference)
      new_pat == IF is_this THEN SelfIdent ELSE arg.name
  IN IF is_this /\ ~this.ok THEN
       [ok |-> FALSE, err |-> this.err, arg |-> arg, pd |-> NoArgumentAnalysis,
        extra_apis |-> <<>>]
     ELSE IF ~conv.ok THEN
       [ok |-> FALSE, err |-> ConvertError(conv.err, <<>>), arg |-> arg,
        pd |-> NoArgumentAnalysis, extra_apis |-> <<>>]
     ELSE
       [ok |-> TRUE, err |-> NoError,
        arg |-> [name |-> new_pat, ty |-> conv.ty],
        pd |-> [conversion |-> argument_conversion_details(pod_safe, gen_utilities, conv.ty),
                name |-> new_pat,
                self_type |-> IF is_this THEN Some(this.this_type) ELSE None,
                was_reference |-> conv.ty.k = "Ref",
                deps |-> conv.types_encountered,
                is_virtual |-> is_this /\ this.is_virtual,
                requires_unsafe |-> conv.requires_unsafe],
        extra_apis |-> conv.extra_apis]

\* FnAnalyzer::convert_return_type
convert_return_type(pod_safe, rt, ns, convert_ptr_to_reference) ==
  IF IsNone(rt) THEN
    [ok |-> TRUE, err |-> NoError, rt |-> None, conversion |-> None,
     was_reference |-> FALSE, deps |-> {}, extra_apis |-> <<>>]
  ELSE
    LET conv == type_converter_convert(Unwrap(rt), ns, convert_ptr_to_reference)
    IN IF ~conv.ok THEN
         [ok |-> FALSE, err |-> ConvertError(conv.err, <<>>), rt |-> rt,
          conversion |-> None, was_reference |-> FALSE, deps |-> {}, extra_apis |-> <<>>]
       ELSE
         [ok |-> TRUE, err |-> NoError, rt |-> Some(conv.ty),
          conversion |-> Some(return_type_conversion_details(pod_safe, conv.ty)),
          was_reference |-> conv.ty.k = "Ref",
          deps |-> conv.types_encountered, extra_apis |-> conv.extra_apis]

\* The return analysis synthesized for a constructor.
constructor_return_analysis(self_ty) ==
  [ok |-> TRUE, err |-> NoError, rt |-> Some(PathTy(self_ty)),
   conversion |-> Some(new_to_unique_ptr(PathTy(self_ty))),
   was_reference |-> FALSE, deps |-> {self_ty}, extra_apis |-> <<>>]

\* Mutant: only the bare marker counts as a destructor.
is_destructor_exact(initial_rust_name) == initial_rust_name = DestructorMarker
\* initial_rust_name.ends_with("_destructor")
is_destructor(initial_rust_name) == ends_with(initial_rust_name, DestructorMarker)

\* original_name.as_ref().unwrap_or(&initial_rust_name)
diagnostic_display_name_of(fi) ==
  IF IsSome(fi.original_name) THEN Unwrap(fi.original_name) ELSE fi.ident

\* Naming, part one: the C++ call name and the ideal Rust name.
name_probably_invalid_in_rust(fi) ==
  IsSome(fi.original_name) /\ ends_with(fi.ident, Underscore)
cpp_call_name_of(fi) ==
  IF IsSome(fi.original_name) THEN Unwrap(fi.original_name) ELSE fi.ident
ideal_rust_name_of(fi) ==
  IF name_probably_invalid_in_rust(fi) THEN fi.ident ELSE cpp_call_name_of(fi)

\* The first receiver type among the parameter details.
first_self_type(param_details) ==
  LET with == {i \in 1..Len(param_details) : IsSome(param_details[i].self_type)}
  IN IF with = {} THEN None
     ELSE param_details[CHOOSE i \in with : \A j \in with : i <= j].self_type

\* contextualize_error
contextualize_error(self_ty_for_error, rust_name_for_error) ==
  IF IsNone(self_ty_for_error) THEN ErrorContext_Item(rust_name_for_error)
  ELSE ErrorContext_Method(get_final_item(Unwrap(self_ty_for_error)), rust_name_for_error)

\* Mutant: unsafe only when every parameter requires it.
requires_unsafe_of_all(unsafe_policy, param_details) ==
  should_be_unsafe(unsafe_policy)
    \/ \A i \in 1..Len(param_details) : param_details[i].requires_unsafe
\* requires_unsafe of the record
requires_unsafe_of(unsafe_policy, param_details) ==
  should_be_unsafe(unsafe_policy)
    \/ \E i \in 1..Len(param_details) : param_details[i].requires_unsafe

\* rust_name.starts_with(&type_ident): the method is taken for a constructor.
is_constructor_name(rust_name, type_ident) == starts_with(rust_name, type_ident)
\* format!("make_unique{}", &rust_name[type_ident.len()..])
constructor_rust_name(rust_name, type_ident) ==
  MakeUnique \o slice_from(rust_name, Len(type_ident))
\* params.into_iter().skip(1).collect()
skip_first(params) == IF Len(params) = 0 THEN <<>> ELSE Tail(params)

\* The method kind of a function with an owning type.
method_kind_of(rust_name, type_ident, is_static_method, param_details, pure_virtual) ==
  IF is_constructor_name(rust_name, type_ident) THEN "Constructor"
  ELSE IF is_static_method THEN "Static"
  ELSE IF \E i \in 1..Len(param_details) : param_details[i].is_virtual
       THEN IF pure_virtual THEN "PureVirtual" ELSE "Virtual"
  ELSE "Normal"

FnKind_Function == [fk |-> "Function", self_ty |-> None, mk |-> ""]
FnKind_Method(self_ty, mk) == [fk |-> "Method", self_ty |-> Some(self_ty), mk |-> mk]

\* cxx allows a reference return only with exactly one reference parameter.
num_input_references(param_details) ==
  Cardinality({i \in 1..Len(param_details) : param_details[i].was_reference})
\* Mutant: one reference parameter or more will do.
reference_return_allowed_some(was_reference, param_details) ==
  ~was_reference \/ num_input_references(param_details) >= 1
reference_return_allowed(was_reference, param_details) ==
  ~was_reference \/ num_input_references(param_details) = 1

\* Mutant: a method renamed within the bridge gets no wrapper for that.
wrapper_function_needed_unless_renamed(kind, cxxbridge_name, rust_name, param_details, ret_conversion) ==
  \/ kind.fk = "Method" /\ kind.mk \in {"Static", "Virtual", "PureVirtual"}
  \/ \E i \in 1..Len(param_details) : cpp_work_needed(param_details[i].conversion)
  \/ IsSome(ret_conversion) /\ cpp_work_needed(Unwrap(ret_conversion))
\* wrapper_function_needed
wrapper_function_needed(kind, cxxbridge_name, rust_name, param_details, ret_conversion) ==
  LET param_conversion_needed ==
        \E i \in 1..Len(param_details) : cpp_work_needed(param_details[i].conversion)
      ret_type_conversion_needed ==
        IsSome(ret_conversion) /\ cpp_work_needed(Unwrap(ret_conversion))
  IN \/ kind.fk = "Method" /\ kind.mk \in {"Static", "Virtual", "PureVirtual"}
     \/ kind.fk = "Method" /\ cxxbridge_name # rust_name
     \/ param_conversion_needed
     \/ ret_type_conversion_needed

\* format!("{}{}autocxx_wrapper", cxxbridge_name, joiner)
wrapper_name(cxxbridge_name) ==
  LET joiner == IF ends_with(cxxbridge_name, Underscore) THEN <<>> ELSE Underscore
  IN cxxbridge_name \o joiner \o AutocxxWrapper

\* (payload, has_receiver) of the FunctionWrapper
wrapper_payload(kind, ns, cpp_call_name) ==
  CASE kind.fk = "Method" /\ kind.mk = "Constructor" ->
         [p |-> "Constructor", ns |-> <<>>, ty |-> <<>>, name |-> <<>>,
          has_receiver |-> FALSE]
    [] kind.fk = "Method" /\ kind.mk = "Static" ->
         [p |-> "StaticMethodCall", ns |-> ns,
          ty |-> get_final_item(Unwrap(kind.self_ty)), name |-> cpp_call_name,
          has_receiver |-> FALSE]
    [] kind.fk = "Method" /\ kind.mk \notin {"Constructor", "Static"} ->
         [p |-> "FunctionCall", ns |-> ns, ty |-> <<>>, name |-> cpp_call_name,
          has_receiver |-> TRUE]
    [] OTHER ->
         [p |-> "FunctionCall", ns |-> ns, ty |-> <<>>, name |-> cpp_call_name,
          has_receiver |-> FALSE]

\* Mutant: the receiver keeps its own name.
wrapper_params_named(param_details, kind) ==
  [i \in 1..Len(param_details) |->
     [name |-> param_details[i].name,
      ty |-> converted_rust_type(param_details[i].conversion)]]
\* The parameters of the cxx::bridge entry of a wrapped function.
wrapper_params(param_details, kind) ==
  [i \in 1..Len(param_details) |->
     [name |-> IF IsSome(param_details[i].self_type)
                  /\ ~(kind.fk = "Method" /\ kind.mk = "Constructor")
               THEN AutocxxGenThis ELSE param_details[i].name,
      ty |-> converted_rust_type(param_details[i].conversion)]]

\* Mutant: the friendly name is used whether or not it was claimed before.
final_naming_never_aliased(kind, rust_name, cxxbridge_name, rust_name_ok) ==
  IF kind.fk = "Method" \/ cxxbridge_name = rust_name
  THEN [id |-> rust_name, strategy |-> "None", alias |-> <<>>]
  ELSE [id |-> rust_name, strategy |-> "RenameUsingRustAttr", alias |-> <<>>]
\* Naming, part two: (id, rust_rename_strategy)
final_naming(kind, rust_name, cxxbridge_name, rust_name_ok) ==
  IF kind.fk = "Method" THEN [id |-> rust_name, strategy |-> "None", alias |-> <<>>]
  ELSE IF cxxbridge_name = rust_name
       THEN [id |-> rust_name, strategy |-> "None", alias |-> <<>>]
  ELSE IF rust_name_ok
       THEN [id |-> rust_name, strategy |-> "RenameUsingRustAttr", alias |-> <<>>]
  ELSE [id |-> cxxbridge_name, strategy |-> "RenameInOutputMod", alias |-> rust_name]

\* What analyze_foreign_fn returns, with the values of its local variables at
\* the point of return (locals), which the properties below refer to.
NoLocals ==
  [stage |-> "", ideal_rust_name |-> <<>>, overload_name |-> <<>>,
   self_ty |-> None, is_static_method |-> FALSE, has_receiver |-> FALSE,
   bridge_name |-> <<>>, declared |-> <<>>, ret_was_reference |-> FALSE,
   input_references |-> 0, ret_type_conversion |-> None,
   rust_name_ok |-> FALSE, claimed |-> FALSE]
FnResult(outcome, me, body, id, deps, err, ctx, locals) ==
  [outcome |-> outcome, me |-> me, body |-> body, id |-> id, deps |-> deps,
   err |-> err, ctx |-> ctx, locals |-> locals]

\* analyze_foreign_fn is one function; it is written here as the chain of its
\* sections, each handing the local variables it has set to the next.

\* Mutant: the friendly name is claimed only when a rename is considered.
analyze_final_naming_claim_on_rename(me, fi, kind, rust_name, cxxbridge_name, params, param_details, deps, ret_type, cpp_wrapper, claim, locals) ==
  LET rust_name_ok == kind.fk = "Function" /\ claim.ok
      naming == final_naming(kind, rust_name, cxxbridge_name, rust_name_ok)
  IN FnResult("ok",
              IF kind.fk = "Function" /\ cxxbridge_name # rust_name
              THEN [me EXCEPT !.rust_name_tracker = claim.tracker] ELSE me,
              Some([cxxbridge_name |-> cxxbridge_name,
                    rust_name |-> rust_name,
                    rust_rename_strategy |-> [s |-> naming.strategy, alias |-> naming.alias],
                    params |-> params,
                    kind |-> kind,
                    ret_type |-> ret_type,
                    param_details |-> param_details,
                    cpp_call_name |-> cpp_call_name_of(fi),
                    requires_unsafe |-> requires_unsafe_of(me.unsafe_policy, locals.declared),
                    cpp_wrapper |-> cpp_wrapper]),
              naming.id, deps, NoError, NoContext,
              [locals EXCEPT !.stage = "done",
                             !.rust_name_ok = rust_name_ok,
                             !.claimed = kind.fk = "Function" /\ cxxbridge_name # rust_name])
\* Naming, part two, and the record.
analyze_final_naming(me, fi, kind, rust_name, cxxbridge_name, params, param_details, deps, ret_type, cpp_wrapper, claim, locals) ==
  LET rust_name_ok == kind.fk = "Function" /\ claim.ok
      naming == final_naming(kind, rust_name, cxxbridge_name, rust_name_ok)
  IN FnResult("ok",
              IF kind.fk = "Function"
              THEN [me EXCEPT !.rust_name_tracker = claim.tracker] ELSE me,
              Some([cxxbridge_name |-> cxxbridge_name,
                    rust_name |-> rust_name,
                    rust_rename_strategy |-> [s |-> naming.strategy, alias |-> naming.alias],
                    params |-> params,
                    kind |-> kind,
                    ret_type |-> ret_type,
                    param_details |-> param_details,
                    cpp_call_name |-> cpp_call_name_of(fi),
                    requires_unsafe |-> requires_unsafe_of(me.unsafe_policy, locals.declared),
                    cpp_wrapper |-> cpp_wrapper]),
              naming.id, deps, NoError, NoContext,
              [locals EXCEPT !.stage = "done",
                             !.rust_name_ok = rust_name_ok,
                             !.claimed = kind.fk = "Function"])

\* The wrapper function, when one is needed.
FunctionWrapper(payload, name, return_conversion, param_details) ==
  [payload |-> [p |-> payload.p, ns |-> payload.ns, ty |-> payload.ty,
                name |-> payload.name],
   wrapper_function_name |-> name,
   return_conversion |-> return_conversion,
   argument_conversion |-> [i \in 1..Len(param_details) |-> param_details[i].conversion],
   is_a_method |-> payload.has_receiver]

analyze_wrapper(me, ns, fi, kind, rust_name, bridge_name, params, param_details, deps, return_analysis, needed, locals) ==
  IF needed THEN
    analyze_final_naming(me, fi, kind, rust_name, wrapper_name(bridge_name),
      wrapper_params(param_details, kind), param_details, deps,
      IF IsSome(return_analysis.conversion)
      THEN Some(unconverted_rust_type(Unwrap(return_analysis.conversion)))
      ELSE return_analysis.rt,
      Some(FunctionWrapper(wrapper_payload(kind, ns, cpp_call_name_of(fi)),
                           wrapper_name(bridge_name), return_analysis.conversion,
                           param_details)),
      ok_to_use_rust_name(me.rust_name_tracker, rust_name), locals)
  ELSE
    analyze_final_naming(me, fi, kind, rust_name, bridge_name, params, param_details,
      deps, return_analysis.rt, None,
      ok_to_use_rust_name(me.rust_name_tracker, rust_name), locals)

\* The return type and the reference-return rule.
analyze_return(me, ns, fi, kind, rust_name, bridge_name, params, param_details, params_deps, ctx, return_analysis, locals) ==
  IF ~return_analysis.ok THEN
    FnResult("err", me, None, <<>>, {}, return_analysis.err, ctx,
             [locals EXCEPT !.stage = "return"])
  ELSE IF ~reference_return_allowed(return_analysis.was_reference, param_details) THEN
    FnResult("err", [me EXCEPT !.extra_apis = @ \o return_analysis.extra_apis],
             None, <<>>, {}, ConvertError("NotOneInputReference", rust_name), ctx,
             [locals EXCEPT !.stage = "reference",
                            !.ret_was_reference = return_analysis.was_reference,
                            !.input_references = num_input_references(param_details)])
  ELSE
    analyze_wrapper([me EXCEPT !.extra_apis = @ \o return_analysis.extra_apis],
      ns, fi, kind, rust_name, bridge_name, params, param_details,
      params_deps \cup return_analysis.deps, return_analysis,
      wrapper_function_needed(kind, bridge_name, rust_name, param_details,
                              return_analysis.conversion),
      [locals EXCEPT !.ret_was_reference = return_analysis.was_reference,
                     !.input_references = num_input_references(param_details),
                     !.ret_type_conversion = return_analysis.conversion])

\* The name within the cxx::bridge mod.
analyze_bridge_name(me, ns, fi, kind, rust_name, params, param_details, params_deps, ctx, bridged, locals) ==
  analyze_return([me EXCEPT !.bridge_name_tracker = bridged.tracker],
    ns, fi, kind, rust_name, bridged.name, params, param_details, params_deps, ctx,
    IF kind.fk = "Method" /\ kind.mk = "Constructor"
    THEN constructor_return_analysis(Unwrap(kind.self_ty))
    ELSE convert_return_type(me.pod_safe_types, fi.output, ns, fi.ret_ref),
    [locals EXCEPT !.bridge_name = bridged.name])

\* The kind of a method, once the overload tracker has named it.
analyze_method_kind(me, ns, fi, self_ty, mk, real_name, params, param_details, params_deps, ctx, locals) ==
  IF mk = "Constructor" /\ Len(param_details) = 0 THEN
    \* param_details.remove(0) on an empty Vec panics
    FnResult("panic", me, None, <<>>, {}, NoError, NoContext,
             [locals EXCEPT !.stage = "classification"])
  ELSE IF mk = "Constructor" THEN
    analyze_bridge_name(me, ns, fi, FnKind_Method(self_ty, mk),
      constructor_rust_name(real_name, get_final_item(self_ty)),
      skip_first(params), skip_first(param_details), params_deps, ctx,
      get_cxx_bridge_name(me.bridge_name_tracker, Some(get_final_item(self_ty)),
                          constructor_rust_name(real_name, get_final_item(self_ty)), ns),
      locals)
  ELSE
    analyze_bridge_name(me, ns, fi, FnKind_Method(self_ty, mk), real_name,
      params, param_details, params_deps, ctx,
      get_cxx_bridge_name(me.bridge_name_tracker, Some(get_final_item(self_ty)),
                          real_name, ns),
      locals)

\* Mutant: the overload tracker has counted the method before the allow-list
\* is looked at.
analyze_method_counted_first(me, ns, fi, self_ty, is_static_method, params, param_details, params_deps, ctx, named, locals) ==
  IF ~is_on_allowlist(me.allowlist, self_ty) THEN
    FnResult("dropped",
             [me EXCEPT !.overload_trackers_by_mod = overload_tracker_store(@, ns, named.tracker)],
             None, <<>>, {}, NoError, NoContext,
             [locals EXCEPT !.stage = "allowlist"])
  ELSE
    analyze_method_kind(
      [me EXCEPT !.overload_trackers_by_mod = overload_tracker_store(@, ns, named.tracker)],
      ns, fi, self_ty,
      method_kind_of(named.name, get_final_item(self_ty), is_static_method,
                     param_details, fi.pure_virtual),
      named.name, params, param_details, params_deps, ctx,
      [locals EXCEPT !.overload_name = named.name])
\* A method: gated by the allow-list, named by the overload tracker of its
\* namespace.
analyze_method(me, ns, fi, self_ty, is_static_method, params, param_details, params_deps, ctx, named, locals) ==
  IF ~is_on_allowlist(me.allowlist, self_ty) THEN
    FnResult("dropped", me, None, <<>>, {}, NoError, NoContext,
             [locals EXCEPT !.stage = "allowlist"])
  ELSE
    analyze_method_kind(
      [me EXCEPT !.overload_trackers_by_mod = overload_tracker_store(@, ns, named.tracker)],
      ns, fi, self_ty,
      method_kind_of(named.name, get_final_item(self_ty), is_static_method,
                     param_details, fi.pure_virtual),
      named.name, params, param_details, params_deps, ctx,
      [locals EXCEPT !.overload_name = named.name])

\* Not a method: named by the overload tracker of its namespace.
analyze_function(me, ns, fi, params, param_details, params_deps, ctx, named, locals) ==
  analyze_bridge_name(
    [me EXCEPT !.overload_trackers_by_mod = overload_tracker_store(@, ns, named.tracker)],
    ns, fi, FnKind_Function, named.name, params, param_details, params_deps, ctx,
    get_cxx_bridge_name(me.bridge_name_tracker, None, named.name, ns),
    [locals EXCEPT !.overload_name = named.name])

\* The kind of the function: (is_static_method, self_ty) and the two arms.
analyze_kind(me, ns, fi, is_static_method, self_ty, params, param_details, params_deps, ctx, locals) ==
  IF IsSome(self_ty) THEN
    analyze_method(me, ns, fi, Unwrap(self_ty), is_static_method, params, param_details,
      params_deps, ctx,
      OverloadTracker_get_method_real_name(
        overload_tracker_entry(me.overload_trackers_by_mod, ns),
        get_final_item(Unwrap(self_ty)), ideal_rust_name_of(fi)),
      [locals EXCEPT !.self_ty = self_ty, !.is_static_method = is_static_method])
  ELSE
    analyze_function(me, ns, fi, params, param_details, params_deps, ctx,
      OverloadTracker_get_function_real_name(
        overload_tracker_entry(me.overload_trackers_by_mod, ns), ideal_rust_name_of(fi)),
      locals)

\* The parameters are converted: the first failure, the template flag, and on.
analyze_converted(me, ns, fi, params, param_details, bads, self_ty) ==
  IF Len(bads) > 0 THEN
    FnResult("err", me, None, <<>>, {}, bads[1].err,
             contextualize_error(self_ty, diagnostic_display_name_of(fi)),
             [NoLocals EXCEPT !.stage = "parameters", !.self_ty = self_ty,
                              !.has_receiver = IsSome(self_ty)])
  ELSE IF fi.unused_template_param THEN
    FnResult("err", me, None, <<>>, {}, ConvertError("UnusedTemplateParam", <<>>),
             contextualize_error(self_ty, diagnostic_display_name_of(fi)),
             [NoLocals EXCEPT !.stage = "template", !.self_ty = self_ty,
                              !.has_receiver = IsSome(self_ty)])
  ELSE
    analyze_kind(me, ns, fi,
      IsNone(self_ty) /\ IsSome(fi.self_ty),
      IF IsNone(self_ty) THEN fi.self_ty ELSE self_ty,
      params, param_details,
      union_all([i \in 1..Len(param_details) |-> param_details[i].deps]),
      contextualize_error(self_ty, diagnostic_display_name_of(fi)),
      [NoLocals EXCEPT !.ideal_rust_name = ideal_rust_name_of(fi),
                       !.has_receiver = IsSome(self_ty),
                       !.declared = param_details])

\* The results of convert_fn_arg, partitioned by Result::is_ok and unzipped.
analyze_partitioned(me, ns, fi, goods, bads) ==
  analyze_converted(me, ns, fi,
    [i \in 1..Len(goods) |-> goods[i].arg],
    [i \in 1..Len(goods) |-> goods[i].pd],
    bads,
    first_self_type([i \in 1..Len(goods) |-> goods[i].pd]))

analyze_parameters(me, ns, fi, converted) ==
  analyze_partitioned(
    [me EXCEPT !.extra_apis =
       @ \o concat_all([i \in 1..Len(converted) |-> converted[i].extra_apis])],
    ns, fi,
    SelectSeq(converted, LAMBDA r : r.ok),
    SelectSeq(converted, LAMBDA r : ~r.ok))

\* FnAnalyzer::analyze_foreign_fn
analyze_foreign_fn(me, ns, fi) ==
  IF is_destructor(fi.ident) THEN
    FnResult("dropped", me, None, <<>>, {}, NoError, NoContext,
             [NoLocals EXCEPT !.stage = "destructor"])
  ELSE
    analyze_parameters(me, ns, fi,
      [i \in 1..Len(fi.inputs) |->
         convert_fn_arg(me.pod_safe_types, me.generate_utilities, fi.inputs[i], ns,
                        diagnostic_display_name_of(fi), fi.virtual_this, fi.ref_args)])

\* ------------------------------------------------------------- API items
Api(name, deps, detail) == [name |-> name, deps |-> deps, detail |-> detail]

\* FuncToConvert: the foreign item (identifier, attributes, inputs, output)
\* with the receiver type of a virtual call and the owning type, if known.
FuncToConvert(ident, original_name, inputs, output, ret_ref, ref_args, unused_template_param, pure_virtual, virtual_this, self_ty) ==
  [ident |-> ident, original_name |-> original_name, inputs |-> inputs,
   output |-> output, ret_ref |-> ret_ref, ref_args |-> ref_args,
   unused_template_param |-> unused_template_param, pure_virtual |-> pure_virtual,
   virtual_this |-> virtual_this, self_ty |-> self_ty]
FunctionApi(ns, fi) == Api(QN(ns, fi.ident), {}, [d |-> "Function", fun |-> fi])
Arg(name, ty) == [name |-> name, ty |-> ty]

\* FnAnalyzer::should_generate_utilities
should_generate_utilities(as) ==
  \E i \in 1..Len(as) : as[i].detail.d = "StringConstructor"

\* FnAnalyzer::build_pod_safe_type_set
build_pod_safe_type_set(as) ==
  {as[i].name : i \in {j \in 1..Len(as) :
                         as[j].detail.d = "Type" /\ as[j].detail.analysis = "Pod"}}
    \cup known_pod_safe_types

\* FnAnalyzer::make_extra_api_nonpod
make_extra_api_nonpod(api) == Api(api.name, api.deps, [d |-> "ConcreteType"])

\* error_reporter::add_api_or_report_error: a record is pushed, a drop leaves
\* the list alone, a failure with a context pushes the placeholder item.
ignored_item(ns, err, ctx) ==
  Api(QN(ns, ctx.id), {}, [d |-> "IgnoredItem", err |-> err, ctx |-> ctx])
add_api_or_report_error(res, ns, outcome, api, err, ctx) ==
  CASE outcome = "ok" -> Append(res, api)
    [] outcome = "err" /\ ctx # NoContext -> Append(res, ignored_item(ns, err, ctx))
    [] OTHER -> res

\* FnAnalyzer::analyze_fn_api, the Function arm
analyze_fn_api(me, api) ==
  LET ns == get_namespace(api.name)
      r == analyze_foreign_fn(me, ns, api.detail.fun)
  IN [r EXCEPT !.body =
        IF r.outcome = "ok"
        THEN Some(Api(QN(ns, r.id), r.deps,
                      [d |-> "Function", fun |-> api.detail.fun,
                       analysis |-> Unwrap(r.body)]))
        ELSE None]

\* ------------------------------------------------------------------ state
VARIABLES
  apis,                      \* the input list of analyze_functions
  pos,                       \* the next item of the for loop
  pc,                        \* "running", "done", or "panicked"
  results,                   \* the output list
  trace,                     \* per input item already processed: what became of it
  unsafe_policy,             \* FnAnalyzer fields
  allowlist,
  pod_safe_types,
  generate_utilities,
  rust_name_tracker,
  bridge_name_tracker,
  overload_trackers_by_mod,
  extra_apis

vars == <<apis, pos, pc, results, trace, unsafe_policy, allowlist, pod_safe_types,
          generate_utilities, rust_name_tracker, bridge_name_tracker,
          overload_trackers_by_mod, extra_apis>>

Me == [unsafe_policy |-> unsafe_policy, allowlist |-> allowlist,
       pod_safe_types |-> pod_safe_types, generate_utilities |-> generate_utilities,
       rust_name_tracker |-> rust_name_tracker,
       bridge_name_tracker |-> bridge_name_tracker,
       overload_trackers_by_mod |-> overload_trackers_by_mod,
       extra_apis |-> extra_apis]

Lists(D, n) == UNION {[1..k -> D] : k \in 0..n}

\* Mutant: the friendly-name tracker may be one left over from an earlier run.
InitWith_stale_tracker(lists, policies, allowlists) ==
  /\ apis \in lists
  /\ unsafe_policy \in policies
  /\ allowlist \in allowlists
  /\ pos = 1
  /\ pc = "running"
  /\ results = <<>>
  /\ trace = <<>>
  /\ pod_safe_types = build_pod_safe_type_set(apis)
  /\ generate_utilities = should_generate_utilities(apis)
  /\ rust_name_tracker \in {RustNameTracker_new, {<<"f">>}}
  /\ bridge_name_tracker = BridgeNameTracker_new
  /\ overload_trackers_by_mod = <<>>
  /\ extra_apis = <<>>
\* FnAnalyzer::analyze_functions up to the loop: the analyzer as constructed.
InitWith(lists, policies, allowlists) ==
  /\ apis \in lists
  /\ unsafe_policy \in policies
  /\ allowlist \in allowlists
  /\ pos = 1
  /\ pc = "running"
  /\ results = <<>>
  /\ trace = <<>>
  /\ pod_safe_types = build_pod_safe_type_set(apis)
  /\ generate_utilities = should_generate_utilities(apis)
  /\ rust_name_tracker = RustNameTracker_new
  /\ bridge_name_tracker = BridgeNameTracker_new
  /\ overload_trackers_by_mod = <<>>
  /\ extra_apis = <<>>

TraceEntry(kind, r, len_before, len_after) ==
  [item |-> kind, outcome |-> r.outcome, err |-> r.err, ctx |-> r.ctx,
   locals |-> r.locals, api |-> r.body,
   out |-> IF len_after > len_before THEN len_after ELSE 0,
   extras |-> Len(r.me.extra_apis)]

\* One turn of the loop of analyze_functions on a function item.
AnalyzeFunction ==
  /\ pc = "running"
  /\ pos <= Len(apis)
  /\ apis[pos].detail.d = "Function"
  /\ LET api == apis[pos]
         r == analyze_fn_api(Me, api)
         res == add_api_or_report_error(results, get_namespace(api.name), r.outcome,
                                        IF r.outcome = "ok" THEN Unwrap(r.body) ELSE api,
                                        r.err, r.ctx)
     IN /\ results' = res
        /\ trace' = Append(trace, TraceEntry("Function", r, Len(results), Len(res)))
        /\ pc' = IF r.outcome = "panic" THEN "panicked" ELSE "running"
        /\ pos' = IF r.outcome = "panic" THEN pos ELSE pos + 1
        /\ rust_name_tracker' = r.me.rust_name_tracker
        /\ bridge_name_tracker' = r.me.bridge_name_tracker
        /\ overload_trackers_by_mod' = r.me.overload_trackers_by_mod
        /\ extra_apis' = r.me.extra_apis
  /\ UNCHANGED <<apis, unsafe_policy, allowlist, pod_safe_types, generate_utilities>>

\* Mutant: the item is handed on under its name in the root namespace.
PassThrough_unqualified ==
  /\ pc = "running"
  /\ pos <= Len(apis)
  /\ apis[pos].detail.d # "Function"
  /\ LET api == apis[pos]
         out == Api(QN(RootNs, get_final_item(api.name)), api.deps, api.detail)
     IN /\ results' = Append(results, out)
        /\ trace' = Append(trace,
                           [item |-> api.detail.d, outcome |-> "ok", err |-> NoError,
                            ctx |-> NoContext, locals |-> NoLocals, api |-> Some(out),
                            out |-> Len(results) + 1,
                            extras |-> Len(extra_apis)])
  /\ pos' = pos + 1
  /\ UNCHANGED <<apis, pc, unsafe_policy, allowlist, pod_safe_types, generate_utilities,
                 rust_name_tracker, bridge_name_tracker, overload_trackers_by_mod,
                 extra_apis>>
\* One turn of the loop on any other item: analyze_fn_api hands it on.
PassThrough ==
  /\ pc = "running"
  /\ pos <= Len(apis)
  /\ apis[pos].detail.d # "Function"
  /\ LET api == apis[pos]
         out == Api(QN(get_namespace(api.name), get_final_item(api.name)), api.deps,
                    api.detail)
     IN /\ results' = Append(results, out)
        /\ trace' = Append(trace,
                           [item |-> api.detail.d, outcome |-> "ok", err |-> NoError,
                            ctx |-> NoContext, locals |-> NoLocals, api |-> Some(out),
                            out |-> Len(results) + 1,
                            extras |-> Len(extra_apis)])
  /\ pos' = pos + 1
  /\ UNCHANGED <<apis, pc, unsafe_policy, allowlist, pod_safe_types, generate_utilities,
                 rust_name_tracker, bridge_name_tracker, overload_trackers_by_mod,
                 extra_apis>>

\* Mutant: the materialized auxiliary types are put first.
Finish_extras_first ==
  /\ pc = "running"
  /\ pos = Len(apis) + 1
  /\ results' = [i \in 1..Len(extra_apis) |-> make_extra_api_nonpod(extra_apis[i])] \o results
  /\ pc' = "done"
  /\ UNCHANGED <<apis, pos, trace, unsafe_policy, allowlist, pod_safe_types,
                 generate_utilities, rust_name_tracker, bridge_name_tracker,
                 overload_trackers_by_mod, extra_apis>>
\* After the loop: the materialized auxiliary types are appended.
Finish ==
  /\ pc = "running"
  /\ pos = Len(apis) + 1
  /\ results' = results \o [i \in 1..Len(extra_apis) |-> make_extra_api_nonpod(extra_apis[i])]
  /\ pc' = "done"
  /\ UNCHANGED <<apis, pos, trace, unsafe_policy, allowlist, pod_safe_types,
                 generate_utilities, rust_name_tracker, bridge_name_tracker,
                 overload_trackers_by_mod, extra_apis>>

Next == AnalyzeFunction \/ PassThrough \/ Finish

\* ----------------------------------------------------------------- inputs
\* The extractor names a method Type_method and annotates it with the C++
\* name; a free function keeps its C++ name unless the extractor had to
\* mangle it (an overload: f1 for f; a keyword: f_ for f).
f == <<"f">>
g == <<"g">>
this_T(ty) == Arg(ThisIdent, PtrTy(ty, TRUE))
this_void == Arg(ThisIdent, PtrTy(CVoidName, TRUE))
by_value(name, ty) == Arg(name, PathTy(ty))

FreeFn(ns, ident, original_name, inputs, output) ==
  FunctionApi(ns, FuncToConvert(ident, original_name, inputs, output, FALSE, {},
                                FALSE, FALSE, None, None))
\* A method with a receiver: T_name, annotated with the C++ name.
Method(ty, name, inputs, output) ==
  FunctionApi(get_namespace(ty),
              FuncToConvert(get_final_item(ty) \o Underscore \o name, Some(name),
                            <<this_T(ty)>> \o inputs, output, FALSE, {},
                            FALSE, FALSE, None, None))
\* A virtual method: the receiver is a pointer to c_void and the concrete
\* receiver type comes beside the function.
VirtualMethod(ty, name, inputs, output, pure_virtual, virtual_this) ==
  FunctionApi(get_namespace(ty),
              FuncToConvert(get_final_item(ty) \o Underscore \o name, Some(name),
                            <<this_void>> \o inputs, output, FALSE, {},
                            FALSE, pure_virtual, virtual_this, None))
\* A static method: no receiver, the owning type comes beside the function.
StaticMethod(ty, name, inputs, output) ==
  FunctionApi(get_namespace(ty),
              FuncToConvert(get_final_item(ty) \o Underscore \o name, Some(name),
                            inputs, output, FALSE, {}, FALSE, FALSE, None, Some(ty)))

StringConstructorApi == Api(QN(RootNs, <<"make_string">>), {}, [d |-> "StringConstructor"])
TypeApi(name, analysis) == Api(name, {}, [d |-> "Type", analysis |-> analysis])
\* A typedef in a namespace, depending on a type.
TypedefApi == Api(QN(NsN, <<"V">>), {T_root}, [d |-> "Typedef"])

Allowlist == {T_root, T_n}

\* The items of the naming specification: free functions and methods that
\* share names within and across namespaces, with and without a wrapper.
NamingApis ==
  { FreeFn(RootNs, f, None, <<>>, None),
    FreeFn(RootNs, f, None, <<by_value(<<"a">>, U_root)>>, None),
    FreeFn(RootNs, <<"f", "1">>, Some(f), <<by_value(<<"a">>, IntName)>>, None),
    FreeFn(RootNs, <<"f", "_">>, None, <<by_value(<<"a">>, U_root)>>, None),
    FreeFn(RootNs, <<"f", "1">>, None, <<>>, None),
    FreeFn(NsN, f, None, <<>>, None),
    FreeFn(RootNs, <<"f", "_", "destructor">>, None, <<>>, None),
    Method(T_root, g, <<>>, None),
    Method(T_root, <<"T">>, <<>>, None),
    Method(T_n, g, <<>>, None),
    Method(U_root, g, <<>>, None),
    StaticMethod(T_root, g, <<>>, None),
    TypeApi(T_root, "NonPod"),
    TypedefApi }

Init == InitWith(Lists(NamingApis, MaxApis), {"AllFunctionsSafe"}, {Allowlist})

Spec == Init /\ [][Next]_vars

\* ------------------------------------------------------------- properties
\* The input items processed so far that are functions, and those that
\* yielded a record.
Functions == {k \in 1..Len(trace) : trace[k].item = "Function"}
Records == {k \in Functions : trace[k].outcome = "ok"}
RecordApi(k) == Unwrap(trace[k].api)
Body(k) == RecordApi(k).detail.analysis
NsOf(k) == get_namespace(apis[k].name)
FunOf(k) == apis[k].detail.fun
\* The functions that reached the classification step (the overload tracker
\* named them).
Classified == {k \in Functions : trace[k].locals.overload_name # <<>>}
IsFreeRecord(k) == k \in Records /\ Body(k).kind.fk = "Function"
IsMethodRecord(k) == k \in Records /\ Body(k).kind.fk = "Method"

\* C1: the boundary names (cxxbridge_name, the wrapper suffix included) of the
\* function records emitted in one run are pairwise distinct.
C1_BoundaryNamesDistinct ==
  \A i, j \in Records :
    i # j => Body(i).cxxbridge_name # Body(j).cxxbridge_name

\* C2: within one namespace the first classified function of an (owning type,
\* ideal name) pair keeps the ideal name, and each later one gets the ideal
\* name followed by a number greater than every number given to the pair
\* before; functions of other namespaces do not count.
SamePair(j, k) ==
  /\ NsOf(j) = NsOf(k)
  /\ trace[j].locals.self_ty = trace[k].locals.self_ty
  /\ trace[j].locals.ideal_rust_name = trace[k].locals.ideal_rust_name
EarlierOfPair(k) == {j \in Classified : j < k /\ SamePair(j, k)}
C2_OverloadSuffixes ==
  \A k \in Classified :
    LET ideal == trace[k].locals.ideal_rust_name
        name == trace[k].locals.overload_name
        earlier == EarlierOfPair(k)
    IN IF earlier = {} THEN name = ideal
       ELSE /\ name = ideal \o to_digits(Cardinality(earlier))
            /\ \E n \in 1..Len(trace) :
                 /\ name = ideal \o to_digits(n)
                 /\ \A j \in earlier :
                      \/ trace[j].locals.overload_name = ideal
                      \/ \E m \in 1..(n - 1) :
                           trace[j].locals.overload_name = ideal \o to_digits(m)
\* A third function of a pair, named with the suffix 2.
C2_WitnessSuffixTwo ==
  \E k \in Classified :
    /\ Cardinality(EarlierOfPair(k)) = 2
    /\ trace[k].locals.overload_name = trace[k].locals.ideal_rust_name \o <<"2">>
\* Two functions of a pair with a function of another namespace and the same
\* ideal name between them: the second of the pair gets the suffix 1.
C2_Witness ==
  \E i, j, k \in Classified :
    /\ i < j /\ j < k
    /\ SamePair(i, k)
    /\ NsOf(j) # NsOf(k)
    /\ trace[j].locals.ideal_rust_name = trace[k].locals.ideal_rust_name
    /\ trace[j].locals.overload_name = trace[j].locals.ideal_rust_name
    /\ trace[k].locals.overload_name = trace[k].locals.ideal_rust_name \o <<"1">>

\* C10: a method record is exposed under its friendly name with no rename; a
\* free-function record has no rename when its boundary name is its friendly
\* name, else is renamed by attribute when no earlier free-function record
\* claimed the friendly name, else is exposed under its boundary name and
\* aliased to the friendly name. Two free overloads of one namespace, first in
\* the run, are exposed as name and name1.
ClaimedBefore(k, rust_name) ==
  \E j \in Records : j < k /\ IsFreeRecord(j) /\ Body(j).rust_name = rust_name
C10_FinalNaming ==
  /\ \A k \in Records :
       LET b == Body(k)
           id == get_final_item(RecordApi(k).name)
       IN IF b.kind.fk = "Method"
          THEN id = b.rust_name /\ b.rust_rename_strategy.s = "None"
          ELSE IF b.cxxbridge_name = b.rust_name
          THEN id = b.rust_name /\ b.rust_rename_strategy.s = "None"
          ELSE IF ~ClaimedBefore(k, b.rust_name)
          THEN id = b.rust_name /\ b.rust_rename_strategy.s = "RenameUsingRustAttr"
          ELSE /\ id = b.cxxbridge_name
               /\ b.rust_rename_strategy = [s |-> "RenameInOutputMod", alias |-> b.rust_name]
  /\ (/\ IsFreeRecord(1) /\ IsFreeRecord(2)
      /\ NsOf(1) = NsOf(2)
      /\ trace[1].locals.ideal_rust_name = trace[2].locals.ideal_rust_name)
     => /\ get_final_item(RecordApi(1).name) = trace[1].locals.ideal_rust_name
        /\ get_final_item(RecordApi(2).name) = trace[1].locals.ideal_rust_name \o <<"1">>
\* A run with a method record, a free function renamed by attribute and a
\* free function aliased in the output scope.
C10_Witness ==
  /\ \E k \in Records : Body(k).rust_rename_strategy.s = "RenameInOutputMod"
  /\ \E k \in Records : Body(k).rust_rename_strategy.s = "RenameUsingRustAttr"
  /\ \E k \in Records : IsMethodRecord(k)

\* ------------------------------------------------- classification (SpecKinds)
\* The items of the classification specification: methods with a receiver,
\* virtual methods (the extractor flags only those pure virtual), static
\* methods and free functions; names that are, start with, or differ from the
\* owning type's name; receivers of every shape; types on and off the
\* allow-list; destructors.
T == <<"T">>
T1 == <<"T", "1">>
Tg == <<"T", "g">>
Extras == {<<>>, <<by_value(<<"a">>, IntName)>>}
bad_param == by_value(<<"b">>, BadName)
Flagged(api) == [api EXCEPT !.detail.fun.unused_template_param = TRUE]
Destructor(ty, inputs) ==
  FunctionApi(get_namespace(ty),
              FuncToConvert(get_final_item(ty) \o Underscore \o get_final_item(ty)
                              \o DestructorMarker,
                            None, inputs, None, FALSE, {}, FALSE, FALSE, None, None))

KindApis ==
  {Method(T_root, nm, extra, None) : nm \in {g, T, T1}, extra \in Extras}
    \cup {VirtualMethod(T_root, nm, extra, None, pv, Some(T_root)) :
            nm \in {g, Tg}, extra \in Extras, pv \in BOOLEAN}
    \cup {StaticMethod(T_root, nm, extra, None) : nm \in {g, T1, Tg}, extra \in Extras}
    \cup { VirtualMethod(T_root, g, <<>>, None, FALSE, None),
           FunctionApi(RootNs, FuncToConvert(<<"T", "_", "g">>, Some(g),
                         <<Arg(ThisIdent, PathTy(T_root))>>, None, FALSE, {},
                         FALSE, FALSE, None, None)),
           Method(U_root, g, <<>>, None),
           Method(U_root, g, <<bad_param>>, None),
           Flagged(Method(U_root, g, <<>>, None)),
           StaticMethod(U_root, g, <<>>, None),
           VirtualMethod(U_root, g, <<>>, None, TRUE, Some(U_root)),
           FreeFn(RootNs, g, None, <<>>, None),
           Flagged(FreeFn(RootNs, g, None, <<>>, None)),
           Flagged(FreeFn(RootNs, g, None, <<bad_param>>, None)),
           StaticMethod(T_root, g, <<bad_param>>, None),
           FunctionApi(RootNs, FuncToConvert(g, None, <<>>, Some(PtrTy(U_root, FALSE)),
                         TRUE, {}, FALSE, FALSE, None, None)),
           FunctionApi(RootNs, FuncToConvert(<<"T", "_", "g">>, Some(g),
                         <<Arg(ThisIdent, PtrOtherTy)>>, None, FALSE, {},
                         FALSE, FALSE, None, None)),
           FreeFn(RootNs, g, None, <<by_value(<<"a">>, U_root)>>, None),
           FreeFn(RootNs, g, None, <<>>, Some(PathTy(U_root))),
           VirtualMethod(T_root, g, <<bad_param>>, None, FALSE, None),
           Destructor(T_root, <<this_T(T_root)>>),
           Destructor(T_root, <<this_T(T_root), bad_param>>),
           Flagged(Destructor(U_root, <<this_T(U_root)>>)),
           TypeApi(T_root, "NonPod") }

InitKinds == InitWith(Lists(KindApis, MaxKindApis), {"AllFunctionsSafe"}, {Allowlist})

SpecKinds == InitKinds /\ [][Next]_vars

\* The receiver parameter of a function, and the owning type the extractor
\* gives it: the type the receiver points to (the concrete receiver type for a
\* pointer to c_void), or the pre-associated owning type.
ReceiverIndexes(fi) == {i \in 1..Len(fi.inputs) : fi.inputs[i].name = ThisIdent}
HasReceiver(fi) == ReceiverIndexes(fi) # {}
ReceiverTy(fi) == fi.inputs[CHOOSE i \in ReceiverIndexes(fi) : TRUE].ty
OwningType(fi) ==
  IF HasReceiver(fi) THEN
    IF ReceiverTy(fi).k # "Ptr" THEN None
    ELSE IF is_cvoid(ReceiverTy(fi).n) THEN fi.virtual_this
    ELSE Some(ReceiverTy(fi).n)
  ELSE fi.self_ty
IsMethodInput(fi) == HasReceiver(fi) \/ IsSome(fi.self_ty)
\* The declared parameters that are not the receiver, in order.
NonReceiverNames(fi) ==
  LET rest == SelectSeq(fi.inputs, LAMBDA a : a.name # ThisIdent)
  IN [i \in 1..Len(rest) |-> rest[i].name]
ParamNames(params) == [i \in 1..Len(params) |-> params[i].name]
\* A name that is the type's name, or the type's name and a number.
IsTypeNameWithSuffix(name, type_ident) ==
  name = type_ident \/ \E n \in 1..9 : name = type_ident \o to_digits(n)

\* C4: a method of an allow-listed type whose disambiguated name is the owning
\* type's name (a number after it or not) is a constructor named make_unique
\* with the same number, its emitted parameters are the declared ones without
\* the receiver, in order, and it returns the owning handle to the type.
C4_ConstructorRecord ==
  \A k \in Records :
    LET fi == FunOf(k)
        b == Body(k)
        own == trace[k].locals.self_ty
        name == trace[k].locals.overload_name
    IN (IsSome(own) /\ IsTypeNameWithSuffix(name, get_final_item(Unwrap(own))))
       => /\ b.kind.mk = "Constructor"
          /\ b.rust_name = MakeUnique \o slice_from(name, Len(get_final_item(Unwrap(own))))
          /\ ParamNames(b.params) = NonReceiverNames(fi)
          /\ b.ret_type = Some(UniquePtrTy(PathTy(Unwrap(own))))

\* C5: a method whose owning type is not on the allow-list is dropped without
\* a record and without an error item, whatever its parameters and flags.
OffAllowlist(k) ==
  /\ IsMethodInput(FunOf(k))
  /\ IsSome(OwningType(FunOf(k)))
  /\ Unwrap(OwningType(FunOf(k))) \notin allowlist
C5_DroppedWhatever ==
  \A k \in Functions :
    OffAllowlist(k) => trace[k].outcome = "dropped" /\ trace[k].out = 0
\* C5 as amended: the failures of the parameter analysis and the
\* unresolved-template flag are reported before the allow-list is looked at;
\* a method of a type off the allow-list never yields a record, and is
\* dropped when its parameters convert and it is not flagged.
ParamsConvert(fi) == \A i \in 1..Len(fi.inputs) : fi.inputs[i].ty.n # BadName
C5_DroppedUnlessFailedBefore ==
  \A k \in Functions :
    OffAllowlist(k) =>
      /\ trace[k].outcome \in {"dropped", "err"}
      /\ (ParamsConvert(FunOf(k)) /\ ~FunOf(k).unused_template_param)
           => trace[k].outcome = "dropped" /\ trace[k].out = 0
      /\ (~is_destructor(FunOf(k).ident) /\ ~ParamsConvert(FunOf(k)))
           => trace[k].outcome = "err" /\ trace[k].err.kind = "UnsupportedType"
      /\ (~is_destructor(FunOf(k).ident) /\ ParamsConvert(FunOf(k))
            /\ FunOf(k).unused_template_param)
           => trace[k].outcome = "err" /\ trace[k].err.kind = "UnusedTemplateParam"
\* A method of a type off the allow-list dropped at the allow-list, after one
\* that failed on a parameter.
C5_Witness ==
  \E j, k \in Functions :
    /\ OffAllowlist(j) /\ trace[j].outcome = "err"
    /\ OffAllowlist(k) /\ trace[k].locals.stage = "allowlist" /\ trace[k].out = 0

\* C6: a function whose identifier ends with "_destructor" leaves no record
\* and no error item in the output, whatever its parameters and flags.
C6_DestructorDropped ==
  \A k \in Functions :
    ends_with(FunOf(k).ident, DestructorMarker)
      => /\ trace[k].outcome = "dropped"
         /\ trace[k].out = 0
         /\ \A i \in 1..Len(results) :
              results[i].detail.d \in {"Function", "IgnoredItem"}
                => get_final_item(results[i].name) # FunOf(k).ident
\* A destructor with a parameter that does not convert, dropped.
C6_Witness ==
  \E k \in Functions :
    /\ ends_with(FunOf(k).ident, DestructorMarker)
    /\ ~ParamsConvert(FunOf(k))
    /\ trace[k].outcome = "dropped"

\* C8: a method flagged pure virtual of an allow-listed type that yields a
\* record has the kind pure virtual and a wrapper whose payload is the call of
\* the function with a receiver.
C8_PureVirtualRecord ==
  \A k \in Records :
    (FunOf(k).pure_virtual /\ IsSome(OwningType(FunOf(k)))
       /\ Unwrap(OwningType(FunOf(k))) \in allowlist)
    => /\ Body(k).kind.mk = "PureVirtual"
       /\ IsSome(Body(k).cpp_wrapper)
       /\ Unwrap(Body(k).cpp_wrapper).payload.p = "FunctionCall"
       /\ Unwrap(Body(k).cpp_wrapper).is_a_method

\* C9: a function without a receiver and with a pre-associated allow-listed
\* owning type that yields a record has the kind static method and a wrapper
\* with the static-method call, no receiver, and every declared parameter.
C9_StaticRecord ==
  \A k \in Records :
    (~HasReceiver(FunOf(k)) /\ IsSome(FunOf(k).self_ty)
       /\ Unwrap(FunOf(k).self_ty) \in allowlist)
    => /\ Body(k).kind.mk = "Static"
       /\ IsSome(Body(k).cpp_wrapper)
       /\ Unwrap(Body(k).cpp_wrapper).payload.p = "StaticMethodCall"
       /\ ~Unwrap(Body(k).cpp_wrapper).is_a_method
       /\ ParamNames(Body(k).params) = ParamNames(FunOf(k).inputs)
       /\ \A i \in 1..Len(Body(k).params) :
            Body(k).params[i].ty =
              converted_rust_type(Body(k).param_details[i].conversion)

\* ----------------------------------------------------- conversion (SpecConv)
\* One function among items that set the analyzer's context: a type declared
\* plain-old-data before it or not, the string constructor utility after it
\* or not. Its parameters and its return type are of every shape: a named
\* type that is plain-old-data when declared so (P), one that never is (U),
\* the string type, a pointer annotated as a reference, a raw pointer, a type
\* the converter rejects, a templated type. It is a free function, a method
\* of T with a receiver, or a constructor of T.
a_ == <<"a">>
b_ == <<"b">>
ParamNameAt == <<a_, b_, <<"c">>, <<"d">>>>
ParamShapes ==
  {[ty |-> PathTy(PodName), ref |-> FALSE], [ty |-> PathTy(U_root), ref |-> FALSE],
   [ty |-> PathTy(StringName), ref |-> FALSE], [ty |-> PtrTy(U_root, FALSE), ref |-> TRUE],
   [ty |-> PtrTy(U_root, TRUE), ref |-> FALSE], [ty |-> PathTy(BadName), ref |-> FALSE],
   [ty |-> PathTy(TplName), ref |-> FALSE]}
ReturnShapes ==
  {[ty |-> None, ref |-> FALSE], [ty |-> Some(PathTy(PodName)), ref |-> FALSE],
   [ty |-> Some(PathTy(U_root)), ref |-> FALSE],
   [ty |-> Some(PathTy(StringName)), ref |-> FALSE],
   [ty |-> Some(PtrTy(U_root, FALSE)), ref |-> TRUE],
   [ty |-> Some(PtrTy(U_root, TRUE)), ref |-> FALSE],
   [ty |-> Some(PathTy(BadName)), ref |-> FALSE]}
ConvInputs(shapes) == [i \in 1..Len(shapes) |-> Arg(ParamNameAt[i], shapes[i].ty)]
ConvRefArgs(shapes) == {ParamNameAt[i] : i \in {j \in 1..Len(shapes) : shapes[j].ref}}
ConvFunction(recv, shapes, ret) ==
  CASE recv = "free" ->
         FunctionApi(RootNs, FuncToConvert(g, None, ConvInputs(shapes), ret.ty, ret.ref,
                                           ConvRefArgs(shapes), FALSE, FALSE, None, None))
    [] recv = "method" ->
         FunctionApi(RootNs, FuncToConvert(<<"T", "_", "g">>, Some(g),
                                           <<this_T(T_root)>> \o ConvInputs(shapes),
                                           ret.ty, ret.ref, ConvRefArgs(shapes),
                                           FALSE, FALSE, None, None))
    [] OTHER ->
         FunctionApi(RootNs, FuncToConvert(<<"T", "_", "T">>, Some(T),
                                           <<this_T(T_root)>> \o ConvInputs(shapes),
                                           ret.ty, ret.ref, ConvRefArgs(shapes),
                                           FALSE, FALSE, None, None))
ConvApis ==
  {pre \o <<ConvFunction(recv, shapes, ret)>> \o post :
     pre \in {<<>>, <<TypeApi(PodName, "Pod")>>},
     post \in {<<>>, <<StringConstructorApi>>},
     recv \in {"free", "method", "constructor"},
     shapes \in Lists(ParamShapes, MaxParams),
     ret \in ReturnShapes}

InitConv ==
  InitWith(ConvApis, {"AllFunctionsSafe", "AllFunctionsUnsafe"}, {Allowlist})

SpecConv == InitConv /\ [][Next]_vars

\* The parameters of a function that are references once converted: the
\* receiver, and the pointers annotated as references.
ReferenceParams(fi) ==
  {i \in 1..Len(fi.inputs) :
     /\ fi.inputs[i].ty.k = "Ptr"
     /\ fi.inputs[i].ty.n # BadName
     /\ fi.inputs[i].name = ThisIdent \/ fi.inputs[i].name \in fi.ref_args}

\* C3: a function whose converted return type is a reference yields a record
\* iff exactly one of its parameters, the receiver included, is a reference;
\* otherwise the outcome is the NotOneInputReference error naming the
\* function, and no record is emitted.
C3_ReferenceReturn ==
  \A k \in Functions :
    trace[k].locals.ret_was_reference =>
      IF Cardinality(ReferenceParams(FunOf(k))) = 1
      THEN /\ trace[k].outcome = "ok"
           /\ trace[k].out # 0
           /\ results[trace[k].out].detail.d = "Function"
      ELSE /\ trace[k].outcome = "err"
           /\ trace[k].err = ConvertError("NotOneInputReference",
                                          trace[k].locals.overload_name)
           /\ trace[k].api = None
           /\ trace[k].out # 0 => results[trace[k].out].detail.d = "IgnoredItem"
\* A method returning a reference with the receiver and one more reference
\* parameter: the error.
C3_Witness ==
  \E k \in Functions :
    /\ trace[k].locals.ret_was_reference
    /\ HasReceiver(FunOf(k))
    /\ Cardinality(ReferenceParams(FunOf(k))) = 2
    /\ trace[k].err.kind = "NotOneInputReference"

\* C7: the conversion policy of a named plain-old-data-safe type is
\* pass-through without glue as a parameter and as a return type; that of a
\* named type neither plain-old-data-safe nor string-convertible is the
\* owning-handle conversion with glue in both positions; a type that is not a
\* path is pass-through.
PolicyAsClaimed(c, position) ==
  LET ty == c.unwrapped_type
  IN /\ (ty.k = "Path" /\ ty.n \in pod_safe_types)
          => c.cpp_conversion = "None" /\ ~cpp_work_needed(c)
     /\ (ty.k = "Path" /\ ty.n \notin pod_safe_types /\ ~convertible_from_strs(ty.n))
          => /\ c.cpp_conversion =
                  (IF position = "parameter" THEN "FromUniquePtrToValue"
                   ELSE "FromValueToUniquePtr")
             /\ cpp_work_needed(c)
     /\ ty.k # "Path" => c.cpp_conversion = "None" /\ ~cpp_work_needed(c)
C7_ConversionPolicy ==
  \A k \in Classified :
    LET declared == trace[k].locals.declared
        ret == trace[k].locals.ret_type_conversion
        fi == FunOf(k)
    IN /\ Len(declared) = Len(fi.inputs)
       /\ \A i \in 1..Len(declared) :
            /\ PolicyAsClaimed(declared[i].conversion, "parameter")
            /\ (fi.inputs[i].ty.k = "Path" /\ fi.inputs[i].ty.n # TplName)
                 => declared[i].conversion.unwrapped_type = fi.inputs[i].ty
       /\ (IsSome(ret) /\ trace[k].locals.overload_name # T)
            => /\ PolicyAsClaimed(Unwrap(ret), "return")
               /\ (Unwrap(fi.output).k = "Path")
                    => Unwrap(ret).unwrapped_type = Unwrap(fi.output)
\* A record of a function taking a type declared plain-old-data and one that
\* is not, and returning one that is not.
C7_Witness ==
  \E k \in Records :
    /\ PodName \in pod_safe_types
    /\ Len(FunOf(k).inputs) = 2
    /\ FunOf(k).inputs[1].ty = PathTy(PodName)
    /\ FunOf(k).inputs[2].ty = PathTy(U_root)
    /\ FunOf(k).output = Some(PathTy(U_root))
    /\ Body(k).param_details[1].conversion.cpp_conversion = "None"
    /\ Body(k).param_details[2].conversion.cpp_conversion = "FromUniquePtrToValue"
    /\ Unwrap(Body(k).cpp_wrapper).return_conversion = Some(new_to_unique_ptr(PathTy(U_root)))

\* C11: no input function makes the analyzer panic: the loop of
\* analyze_functions never stops before the last item.
C11_NeverPanics == pc # "panicked"

\* C12: each input item has at most one entry in the output list (its record,
\* its failure placeholder with the error, or the item handed on), the
\* entries are in input order, and the auxiliary concrete types materialized
\* in the run come after all of them, at the end of the list.
Emitted == {k \in 1..Len(trace) : trace[k].out # 0}
EntryOf(k) == results[trace[k].out]
EntryMatches(k) ==
  CASE trace[k].item # "Function" -> EntryOf(k).detail = apis[k].detail
    [] trace[k].item = "Function" /\ trace[k].outcome = "ok" ->
         /\ EntryOf(k).detail.d = "Function"
         /\ EntryOf(k).detail.fun = FunOf(k)
    [] OTHER ->
         /\ trace[k].outcome = "err"
         /\ EntryOf(k).detail.d = "IgnoredItem"
         /\ EntryOf(k).detail.err = trace[k].err
C12_OutputOrder ==
  /\ \A k \in Emitted :
       /\ trace[k].out = Cardinality({j \in Emitted : j <= k})
       /\ trace[k].out <= Len(results)
       /\ EntryMatches(k)
  /\ pc # "done" => Len(results) = Cardinality(Emitted)
  /\ pc = "done" =>
       /\ Len(results) = Cardinality(Emitted) + Len(extra_apis)
       /\ \A i \in 1..Len(extra_apis) :
            results[Cardinality(Emitted) + i] = make_extra_api_nonpod(extra_apis[i])
\* A finished run with an item handed on, a record and a materialized type.
C12_Witness ==
  /\ pc = "done"
  /\ Len(extra_apis) >= 1
  /\ \E j, k \in Emitted : trace[j].item # "Function" /\ k \in Records
  /\ results[Len(results)].detail.d = "ConcreteType"

\* C13: the output of a run is a function of the input list in its order, the
\* safety policy and the allow-list alone: running the items again from
\* fresh trackers gives the same output list and the same tracker states.
FreshAnalyzer ==
  [me |-> [unsafe_policy |-> unsafe_policy, allowlist |-> allowlist,
           pod_safe_types |-> build_pod_safe_type_set(apis),
           generate_utilities |-> should_generate_utilities(apis),
           rust_name_tracker |-> RustNameTracker_new,
           bridge_name_tracker |-> BridgeNameTracker_new,
           overload_trackers_by_mod |-> <<>>,
           extra_apis |-> <<>>],
   results |-> <<>>]
RerunFunction(st, api, r) ==
  [me |-> r.me,
   results |-> add_api_or_report_error(st.results, get_namespace(api.name), r.outcome,
                                       IF r.outcome = "ok" THEN Unwrap(r.body) ELSE api,
                                       r.err, r.ctx)]
RerunItem(st, api) ==
  IF api.detail.d = "Function" THEN RerunFunction(st, api, analyze_fn_api(st.me, api))
  ELSE [me |-> st.me,
        results |-> Append(st.results,
                           Api(QN(get_namespace(api.name), get_final_item(api.name)),
                               api.deps, api.detail))]
RECURSIVE Rerun(_)
Rerun(n) == IF n = 0 THEN FreshAnalyzer ELSE RerunItem(Rerun(n - 1), apis[n])
SameAsRerun(st) ==
  /\ Me = st.me
  /\ pc = "running" => results = st.results
  /\ pc = "done" =>
       results = st.results
                   \o [i \in 1..Len(st.me.extra_apis) |->
                         make_extra_api_nonpod(st.me.extra_apis[i])]
C14_TemplateFlagError ==
  \A k \in Functions :
    (FunOf(k).unused_template_param /\ ~ends_with(FunOf(k).ident, DestructorMarker))
      => /\ trace[k].outcome = "err"
         /\ trace[k].err.kind = "UnusedTemplateParam"

\* C15: every failure of a function carries a context: the method context
\* naming the owning type for a method (a function with a receiver, or a
\* static method with a pre-associated owning type), the free-function
\* context otherwise.
C15_ErrorContext ==
  \A k \in Functions :
    trace[k].outcome = "err" =>
      /\ trace[k].ctx # NoContext
      /\ (IsMethodInput(FunOf(k)) /\ IsSome(OwningType(FunOf(k))))
           => /\ trace[k].ctx.c = "Method"
              /\ trace[k].ctx.self_ty = get_final_item(Unwrap(OwningType(FunOf(k))))
      /\ ~IsMethodInput(FunOf(k)) => trace[k].ctx.c = "Item"

\* C16: when parameters of a function fail conversion, the function fails
\* with the failure of the first of them, and nothing else of it is kept: the
\* output holds its failure placeholder and no record, and no auxiliary type
\* materialized while its other parameters were converted.
ExtrasBefore(k) == IF k = 1 THEN 0 ELSE trace[k - 1].extras
C16_PartialResultsDiscarded ==
  \A k \in Functions :
    (~ParamsConvert(FunOf(k)) /\ ~ends_with(FunOf(k).ident, DestructorMarker))
      => /\ trace[k].outcome = "err"
         /\ trace[k].err.kind = "UnsupportedType"
         /\ trace[k].api = None
         /\ trace[k].out # 0 /\ EntryOf(k).detail.d = "IgnoredItem"
         /\ trace[k].extras = ExtrasBefore(k)
         /\ pc = "done" => \A i \in 1..Len(results) : results[i].detail.d # "Function"

\* C17: a record has a wrapper iff it is a static, virtual or pure virtual
\* method, or a method whose name within the bridge (before the wrapper
\* suffix) differs from its friendly name, or a parameter's policy needs
\* glue, or there is a return policy and it needs glue; a record without a
\* wrapper keeps the bridge name, the parameters and the return type as
\* they were.
GlueNeeded(k) ==
  \/ \E i \in 1..Len(Body(k).param_details) :
       Body(k).param_details[i].conversion.cpp_conversion # "None"
  \/ /\ IsSome(trace[k].locals.ret_type_conversion)
     /\ Unwrap(trace[k].locals.ret_type_conversion).cpp_conversion # "None"
RenamedMethod(k) ==
  Body(k).kind.fk = "Method" /\ trace[k].locals.bridge_name # Body(k).rust_name
Unrewritten(k) ==
  /\ Body(k).cxxbridge_name = trace[k].locals.bridge_name
  /\ Len(Body(k).params) = Len(Body(k).param_details)
  /\ \A i \in 1..Len(Body(k).params) :
       /\ Body(k).params[i].name = Body(k).param_details[i].name
       /\ Body(k).params[i].ty = Body(k).param_details[i].conversion.unwrapped_type
  /\ Body(k).ret_type =
       (IF IsSome(trace[k].locals.ret_type_conversion)
        THEN Some(Unwrap(trace[k].locals.ret_type_conversion).unwrapped_type)
        ELSE None)
C17_WrapperNeeded ==
  \A k \in Records :
    /\ IsSome(Body(k).cpp_wrapper)
         <=> \/ Body(k).kind.fk = "Method"
                  /\ Body(k).kind.mk \in {"Static", "Virtual", "PureVirtual"}
             \/ RenamedMethod(k)
             \/ GlueNeeded(k)
    /\ IsNone(Body(k).cpp_wrapper) => Unrewritten(k)
\* A record without a wrapper, then a method that needs one only because its
\* name within the bridge was taken.
C17_Witness ==
  \E i, j \in Records :
    /\ IsNone(Body(i).cpp_wrapper)
    /\ IsSome(Body(j).cpp_wrapper)
    /\ Body(j).kind.fk = "Method" /\ Body(j).kind.mk = "Normal"
    /\ RenamedMethod(j) /\ ~GlueNeeded(j)

\* C18: in a record with a wrapper, the wrapper's name is the record's
\* boundary name; its argument conversions are the parameters' policies in
\* order, as many as the emitted parameters; the receiver is emitted as
\* autocxx_gen_this except on a constructor; and the payload follows the
\* kind: constructor and static-method call without a receiver, function call
\* with a receiver for the other methods and without one for free functions.
Wrapped == {k \in Records : IsSome(Body(k).cpp_wrapper)}
WrapperOf(k) == Unwrap(Body(k).cpp_wrapper)
IsConstructorRecord(k) == Body(k).kind.fk = "Method" /\ Body(k).kind.mk = "Constructor"
PayloadMatchesKind(k) ==
  CASE IsConstructorRecord(k) ->
         WrapperOf(k).payload.p = "Constructor" /\ ~WrapperOf(k).is_a_method
    [] Body(k).kind.fk = "Method" /\ Body(k).kind.mk = "Static" ->
         WrapperOf(k).payload.p = "StaticMethodCall" /\ ~WrapperOf(k).is_a_method
    [] Body(k).kind.fk = "Method" /\ Body(k).kind.mk \in {"Normal", "Virtual", "PureVirtual"} ->
         WrapperOf(k).payload.p = "FunctionCall" /\ WrapperOf(k).is_a_method
    [] OTHER ->
         WrapperOf(k).payload.p = "FunctionCall" /\ ~WrapperOf(k).is_a_method
C18_WrapperShape ==
  \A k \in Wrapped :
    /\ WrapperOf(k).wrapper_function_name = Body(k).cxxbridge_name
    /\ Len(WrapperOf(k).argument_conversion) = Len(Body(k).params)
    /\ Len(Body(k).param_details) = Len(Body(k).params)
    /\ \A i \in 1..Len(Body(k).params) :
         /\ WrapperOf(k).argument_conversion[i] = Body(k).param_details[i].conversion
         /\ Body(k).params[i].name =
              (IF IsSome(Body(k).param_details[i].self_type) /\ ~IsConstructorRecord(k)
               THEN AutocxxGenThis ELSE Body(k).param_details[i].name)
    /\ PayloadMatchesKind(k)
\* A wrapped method with its receiver under the placeholder and a wrapped
\* static method in one run.
C18_Witness ==
  \E i, j \in Wrapped :
    /\ Body(i).kind.mk \in {"Normal", "Virtual", "PureVirtual"}
    /\ Len(Body(i).params) >= 1 /\ Body(i).params[1].name = AutocxxGenThis
    /\ Body(j).kind.mk = "Static"
    /\ WrapperOf(j).payload.p = "StaticMethodCall"

\* C19: a record requires unsafe iff the policy marks all functions unsafe or
\* a parameter of the original signature (the receiver included) is a raw
\* pointer that stays one; what the converter reports for the return type
\* does not count.
StaysRawPointer(fi, i) ==
  \/ fi.inputs[i].ty.k = "PtrOther"
  \/ /\ fi.inputs[i].ty.k = "Ptr"
     /\ fi.inputs[i].name # ThisIdent
     /\ fi.inputs[i].name \notin fi.ref_args
C19_RequiresUnsafe ==
  \A k \in Records :
    Body(k).requires_unsafe
      <=> \/ unsafe_policy = "AllFunctionsUnsafe"
          \/ \E i \in 1..Len(FunOf(k).inputs) : StaysRawPointer(FunOf(k), i)
\* A record of a function that returns a raw pointer and takes none, under
\* the policy that leaves functions safe: not unsafe.
C19_Witness ==
  \E k \in Records :
    /\ unsafe_policy = "AllFunctionsSafe"
    /\ FunOf(k).output = Some(PtrTy(U_root, TRUE)) /\ ~FunOf(k).ret_ref
    /\ Len(FunOf(k).inputs) >= 1
    /\ ~Body(k).requires_unsafe

\* C20: the policy of the string type (not plain-old-data, with a string-like
\* native form) is the string conversion, with glue, as a parameter and as a
\* return type when the run generates the utilities (a string-constructor
\* item is in the list), and the owning-handle conversion when it does not.
IsStringPolicy(c) == c.unwrapped_type = PathTy(StringName)
StringBased(c) == c.cpp_conversion = "FromStrToValue" /\ cpp_work_needed(c)
C20_StringPolicy ==
  \A k \in Classified :
    LET declared == trace[k].locals.declared
        ret == trace[k].locals.ret_type_conversion
    IN /\ generate_utilities = (\E i \in 1..Len(apis) : apis[i].detail.d = "StringConstructor")
       /\ \A i \in 1..Len(declared) :
            IsStringPolicy(declared[i].conversion)
              => IF generate_utilities THEN StringBased(declared[i].conversion)
                 ELSE declared[i].conversion.cpp_conversion = "FromUniquePtrToValue"
       /\ (IsSome(ret) /\ IsStringPolicy(Unwrap(ret)))
            => IF generate_utilities THEN StringBased(Unwrap(ret))
               ELSE Unwrap(ret).cpp_conversion = "FromValueToUniquePtr"

\* C21: for a parameter named "this" of a function that is not a destructor:
\* a pointer to c_void with a concrete receiver type supplied makes that
\* type the owning type and the parameter a virtual receiver; with none
\* supplied the function fails with VirtualThisType; a type that is not a
\* pointer to a named type makes it fail with UnexpectedThisType; otherwise
\* the owning type is the named type pointed to and the parameter is not
\* virtual.
ReceiverIndex(fi) == CHOOSE i \in ReceiverIndexes(fi) : TRUE
ReceiverAnalyzed(k, owner, virtual) ==
  /\ trace[k].locals.self_ty = Some(owner)
  /\ ~(trace[k].outcome = "err"
         /\ trace[k].err.kind \in {"VirtualThisType", "UnexpectedThisType"})
  /\ trace[k].locals.declared # <<>>
       => /\ trace[k].locals.declared[ReceiverIndex(FunOf(k))].self_type = Some(owner)
          /\ trace[k].locals.declared[ReceiverIndex(FunOf(k))].is_virtual = virtual
ReceiverFails(k, kind) ==
  /\ trace[k].outcome = "err"
  /\ trace[k].err = ConvertError(kind, diagnostic_display_name_of(FunOf(k)))
  /\ trace[k].api = None
C21_Receiver ==
  \A k \in Functions :
    (HasReceiver(FunOf(k)) /\ ~ends_with(FunOf(k).ident, DestructorMarker)) =>
      LET ty == ReceiverTy(FunOf(k))
      IN CASE ty.k = "Ptr" /\ is_cvoid(ty.n) /\ IsSome(FunOf(k).virtual_this) ->
                ReceiverAnalyzed(k, Unwrap(FunOf(k).virtual_this), TRUE)
           [] ty.k = "Ptr" /\ is_cvoid(ty.n) /\ IsNone(FunOf(k).virtual_this) ->
                ReceiverFails(k, "VirtualThisType")
           [] ty.k # "Ptr" -> ReceiverFails(k, "UnexpectedThisType")
           [] OTHER -> ReceiverAnalyzed(k, ty.n, FALSE)
\* A virtual receiver resolved to its concrete type, and a function that
\* fails for want of one, in one run.
C21_Witness ==
  \E i, j \in Functions :
    /\ HasReceiver(FunOf(i)) /\ is_cvoid(ReceiverTy(FunOf(i)).n)
    /\ i \in Records
    /\ trace[i].locals.declared[1].is_virtual
    /\ trace[i].locals.self_ty = FunOf(i).virtual_this
    /\ trace[j].err.kind = "VirtualThisType"

\* C22: the turn of the loop on an item that is not a function appends the
\* item to the output with its name, its dependencies and its detail, and
\* leaves the three naming trackers as they are.
AtOtherItem == pc = "running" /\ pos <= Len(apis) /\ apis[pos].detail.d # "Function"
TrackersUnchanged ==
  /\ overload_trackers_by_mod' = overload_trackers_by_mod
  /\ bridge_name_tracker' = bridge_name_tracker
  /\ rust_name_tracker' = rust_name_tracker
C22_PassedThrough ==
  [][AtOtherItem => (results' = Append(results, apis[pos]) /\ TrackersUnchanged)]_vars
\* A typedef of a namespace, with a dependency, handed on after a function
\* that left names in the trackers.
C22_Witness ==
  \E j, k \in 1..Len(trace) :
    /\ j < k
    /\ j \in Records
    /\ trace[k].item = "Typedef"
    /\ EntryOf(k) = apis[k]
    /\ apis[k].deps # {} /\ get_namespace(apis[k].name) # RootNs
    /\ bridge_name_tracker # BridgeNameTracker_new

\* C23: a function that is dropped (a destructor, a method of a type off the
\* allow-list) or fails on a parameter or on the template flag leaves the
\* three trackers as they are; a function that reaches classification asks
\* the overload tracker of its namespace once and then the bridge-name
\* tracker once, for the name the overload tracker gave; only a free function
\* that yields a record asks the friendly-name tracker.
RECURSIVE SumOffsets(_)
SumOffsets(tracker) ==
  IF tracker = <<>> THEN 0 ELSE Head(tracker).offset + SumOffsets(Tail(tracker))
OverloadUses(by_mod, ns) == IF ns \in DOMAIN by_mod THEN SumOffsets(by_mod[ns]) ELSE 0
AtFunction == pc = "running" /\ pos <= Len(apis) /\ apis[pos].detail.d = "Function"
ThisEntry == trace'[Len(trace')]
ClassifiedOnce(e, ns) ==
  /\ \A m \in {RootNs, NsN} :
       OverloadUses(overload_trackers_by_mod', m)
         = OverloadUses(overload_trackers_by_mod, m) + (IF m = ns THEN 1 ELSE 0)
  /\ e.locals.bridge_name \notin bridge_name_tracker
  /\ bridge_name_tracker' = bridge_name_tracker \cup {e.locals.bridge_name}
  /\ (/\ e.locals.overload_name \notin bridge_name_tracker
      /\ ~(IsSome(e.locals.self_ty)
             /\ starts_with(e.locals.overload_name,
                            get_final_item(Unwrap(e.locals.self_ty)))))
       => e.locals.bridge_name = e.locals.overload_name
FriendlyNameAsked(e) ==
  IF e.outcome = "ok" /\ Unwrap(e.api).detail.analysis.kind.fk = "Function"
  THEN rust_name_tracker'
         = rust_name_tracker \cup {Unwrap(e.api).detail.analysis.rust_name}
  ELSE rust_name_tracker' = rust_name_tracker
TrackerFrame(e, ns) ==
  IF e.locals.stage \in {"destructor", "parameters", "template", "allowlist"}
  THEN TrackersUnchanged
  ELSE ClassifiedOnce(e, ns) /\ FriendlyNameAsked(e)
Strategy(k) == Body(k).rust_rename_strategy
KeepsFriendlyName(k) == Strategy(k).s \in {"None", "RenameUsingRustAttr"}
FirstWithFriendlyName(k) ==
  \A i \in 1..(k - 1) : IsFreeRecord(i) => Body(i).rust_name # Body(k).rust_name
AliasedInOutputMod(k) ==
  /\ Strategy(k) = [s |-> "RenameInOutputMod", alias |-> Body(k).rust_name]
  /\ RecordApi(k).name = QN(NsOf(k), Body(k).cxxbridge_name)
C24_FriendlyNameClaimed ==
  \A k \in 1..Len(trace) :
    IsFreeRecord(k) =>
      /\ Body(k).rust_name \in rust_name_tracker
      /\ trace[k].locals.claimed
      /\ KeepsFriendlyName(k) => FirstWithFriendlyName(k)
      /\ (~FirstWithFriendlyName(k) /\ Body(k).cxxbridge_name # Body(k).rust_name)
           => AliasedInOutputMod(k)
\* A free function whose boundary name is its friendly name (no rename) is
\* followed by a free function with the same friendly name, which is aliased.
C24_Witness ==
  \E i, j \in 1..Len(trace) :
    /\ i < j
    /\ IsFreeRecord(i) /\ IsFreeRecord(j)
    /\ Body(i).cxxbridge_name = Body(i).rust_name
    /\ Strategy(i).s = "None"
    /\ Body(j).rust_name = Body(i).rust_name
    /\ AliasedInOutputMod(j)

====
